---- MODULE Spec2Model ----
(***************************************************************************)
(* A model of post_queue.py: one run() reads the queue sheet, selects the  *)
(* due rows, publishes them to X and writes each outcome back as a full    *)
(* 7-column row.                                                           *)
(*                                                                         *)
(* Text.  A Python str is a sequence of blocks [c |-> label, n |-> count], *)
(* n >= 1: n characters of class c.  " " is the whitespace class.  The     *)
(* value None is the one-block sequence with n = 0, which no str is.       *)
(* A well-formed 'YYYY-MM-DD HH:MM' text is abbreviated to one block whose *)
(* label is the decimal of its minute number (TimeStr).                    *)
(*                                                                         *)
(* Spec is one invocation of run() from any queue; SpecRuns is a sequence  *)
(* of invocations, none overlapping another, with rows re-queued and the   *)
(* clock advancing in between.  Every store call and every remote call     *)
(* may fail.  log records what a run did and is what the properties read.  *)
(***************************************************************************)
EXTENDS Integers, Sequences, FiniteSets, TLC

\* ------------------------------------------------------------------ bounds
NumRows  == 2      \* data rows of the sheet, at most
MaxTime  == 3      \* the times a row can be scheduled at: 1..MaxTime
MaxCap   == 2      \* MAX_POSTS_PER_RUN ranges over -1..MaxCap
MaxRuns  == 2      \* invocations of run() by the scheduler

\* --------------------------------------------------------------- constants
MAX_TWEET_LEN == 280
MSG_LIMIT     == 500
NCOLS         == 7
HTTP_ERROR    == 400

\* ------------------------------------------------------------------ Python
None     == << [c |-> "None", n |-> 0] >>
Empty    == << >>
Blk(c, n) == << [c |-> c, n |-> n] >>
SP       == Blk(" ", 1)

RECURSIVE PyLen(_)
PyLen(s) == IF s = << >> THEN 0 ELSE Head(s).n + PyLen(Tail(s))

Truthy(v) == v # None /\ v # Empty

PyOr(a, b) == IF Truthy(a) THEN a ELSE b

\* str(x): the identity on a str, the text "None" on None
PyStr(v) == IF v = None THEN Blk("None", 4) ELSE v

RECURSIVE LStrip(_)
LStrip(s) == IF s # << >> /\ Head(s).c = " " THEN LStrip(Tail(s)) ELSE s

RECURSIVE RStrip(_)
RStrip(s) ==
  IF s # << >> /\ s[Len(s)].c = " " THEN RStrip(SubSeq(s, 1, Len(s) - 1)) ELSE s

\* str.strip()
Strip(s) == RStrip(LStrip(s))

\* s[:k] for k >= 0
RECURSIVE Prefix(_, _)
Prefix(s, k) ==
  IF s = << >> \/ k <= 0 THEN << >>
  ELSE IF Head(s).n <= k THEN << Head(s) >> \o Prefix(Tail(s), k - Head(s).n)
  ELSE << [c |-> Head(s).c, n |-> k] >>

Min(a, b) == IF a <= b THEN a ELSE b
Max(a, b) == IF a >= b THEN a ELSE b

\* lst[:m] of a list: a negative m counts from the end
Slice(lst, m) ==
  IF m >= 0 THEN SubSeq(lst, 1, Min(m, Len(lst)))
  ELSE SubSeq(lst, 1, Max(Len(lst) + m, 0))

\* --------------------------------------------------------------- the sheet
HEADERS == << Blk("scheduled_at", 12), Blk("text", 4), Blk("media_path", 10),
              Blk("status", 6), Blk("posted_at", 9), Blk("tweet_id", 8),
              Blk("error_message", 13) >>

PENDING == Blk("PENDING", 7)
READY   == Blk("READY", 5)
POSTED  == Blk("POSTED", 6)
ERROR   == Blk("ERROR", 5)

Times      == 1 .. MaxTime
TimeStrs   == [t \in Times |-> Blk(ToString(t), 1)]
TimeStr(t) == TimeStrs[t]

\* now_jst_str(): the clock, formatted
now_jst_str(t) == TimeStr(t)

\* the time a well-formed text stands for
TimeOf == [b \in { TimeStrs[t] : t \in Times } |-> CHOOSE t \in Times : TimeStrs[t] = b]

\* datetime.strptime(s.strip(), fmt): ok with the time t, or a ValueError
parse_scheduled_at(s) ==
  LET b == Strip(s)
  IN  IF b \in DOMAIN TimeOf THEN [ok |-> TRUE, t |-> TimeOf[b]]
      ELSE [ok |-> FALSE, t |-> 0]

\* a data row of the sheet: the 7 cells A..G
Cells(sa, tx, mp, st, pa, ti, em) == << sa, tx, mp, st, pa, ti, em >>

\* values().get(): a row comes back without its trailing empty cells
RECURSIVE ApiRow(_)
ApiRow(cells) ==
  IF cells # << >> /\ cells[Len(cells)] = Empty
    THEN ApiRow(SubSeq(cells, 1, Len(cells) - 1))
    ELSE cells

\* row + [""] * (len(HEADERS) - len(row))
Pad(row) == row \o [j \in 1 .. (Len(HEADERS) - Len(row)) |-> Empty]

\* the dict read_queue_rows builds for the data row at sheet line i
RowDict(i, row) ==
  LET r == Pad(row)
  IN  [row_index |-> i, scheduled_at |-> r[1], text |-> r[2], media_path |-> r[3],
       status |-> r[4], posted_at |-> r[5], tweet_id |-> r[6],
       error_message |-> r[7]]

\* Insert, but an equal key goes first: the sort is no longer stable
RECURSIVE Insert_Unstable(_, _)
Insert_Unstable(x, lst) ==
  IF lst = << >> THEN << x >>
  ELSE IF x[1] <= Head(lst)[1] THEN << x >> \o lst
  ELSE << Head(lst) >> \o Insert_Unstable(x, Tail(lst))

\* sorted(key=lambda x: x[0]): a stable insertion sort on the first component
RECURSIVE Insert(_, _)
Insert(x, lst) ==
  IF lst = << >> THEN << x >>
  ELSE IF x[1] < Head(lst)[1] THEN << x >> \o lst
  ELSE << Head(lst) >> \o Insert(x, Tail(lst))

RECURSIVE SortByKey(_)
SortByKey(lst) ==
  IF lst = << >> THEN << >>
  ELSE Insert(lst[Len(lst)], SortByKey(SubSeq(lst, 1, Len(lst) - 1)))

\* ---------------------------------------------------------- error messages
\* str(e): a fixed prefix block, then the detail
MsgTooLong       == Blk("text too long", 29)
MsgNotFound(mp)  == Blk("media_path not found: ", 22) \o mp
MsgUploadFailed(body) == Blk("media upload failed: ", 25) \o body
MsgMediaMissing  == Blk("media upload ok but media_id missing", 40)
MsgPostFailed(body) == Blk("tweet post failed: ", 23) \o body
MsgIdMissing     == Blk("tweet posted but id missing", 31)
MsgTimeout       == Blk("timeout", 7)
MsgStore         == Blk("HttpError", 9)
MsgInvalid       == Blk("invalid scheduled_at", 20)
\* str(e)[:500], without the cut
MsgTruncate_Whole(e) == e

\* str(e)[:500]
MsgTruncate(e)   == Prefix(e, MSG_LIMIT)

\* ------------------------------------------------------------ environment
Runs    == {"r1", "r2"}
Caps    == -1 .. MaxCap
Configs == {"ok", "disabled", "missing_env", "no_service_account"}

Body    == Blk("b", 600)
\* what the media endpoint may answer
UploadResults ==
  { [raised |-> FALSE, status |-> 200, media_id_string |-> Blk("5", 1), media_id |-> Blk("5", 1)],
    [raised |-> FALSE, status |-> 200, media_id_string |-> None,  media_id |-> None],
    [raised |-> FALSE, status |-> 400, media_id_string |-> None,  media_id |-> None] }

TweetIds == { Blk("7", 1) }
\* what the tweet endpoint may answer: raised = the request itself failed
PostResults ==
  { [raised |-> FALSE, status |-> 201, id |-> t] : t \in TweetIds } \cup
  { [raised |-> FALSE, status |-> 200, id |-> None],
    [raised |-> FALSE, status |-> 500, id |-> None],
    [raised |-> TRUE,  status |-> 0,   id |-> None] }

\* upload_media(auth, media_path): the media id, or the exception raised
upload_media(media_path, isfile, res) ==
  IF ~isfile THEN [ok |-> FALSE, val |-> MsgNotFound(media_path)]
  ELSE IF res.status >= HTTP_ERROR THEN [ok |-> FALSE, val |-> MsgUploadFailed(Body)]
  ELSE LET media_id == PyOr(res.media_id_string, PyStr(res.media_id))
       IN  IF ~Truthy(media_id) THEN [ok |-> FALSE, val |-> MsgMediaMissing]
           ELSE [ok |-> TRUE, val |-> media_id]

\* post_to_x(auth, text, media_id): the tweet id, or the exception raised
post_to_x(res) ==
  IF res.raised THEN [ok |-> FALSE, val |-> MsgTimeout]
  ELSE IF res.status >= HTTP_ERROR THEN [ok |-> FALSE, val |-> MsgPostFailed(Body)]
  ELSE IF ~Truthy(res.id) THEN [ok |-> FALSE, val |-> MsgIdMissing]
  ELSE [ok |-> TRUE, val |-> res.id]

\* ------------------------------------------------------------------- state
VARIABLES
  header,      \* the cells A1:G1 of the sheet (<< >>: no header row)
  sheet,       \* the data rows: sheet[j] is sheet line j + 1
  store,       \* "up": the sheet answers every call; "flaky": any call may fail
  clock,       \* the wall clock
  pc,          \* per run: where run() is
  config,      \* per run: the environment the process was started in
  max_posts_per_run,
  rows,        \* per run: what read_queue_rows returned
  now,         \* per run: the time taken after the load
  i,           \* per run: index of the selection loop
  candidates,  \* per run: list of << sched, r >>
  k,           \* per run: index of the publishing loop
  media_id,    \* per run
  tid,         \* per run
  exc,         \* per run: the exception being handled
  posted,      \* per run
  log,         \* per run: what the run did (requests, writes, output lines)
  everPosted,  \* sheet lines for which a publish call has returned an id
  rePosted,    \* sheet lines for which a publish request followed such a return
  started,     \* invocations of run() the scheduler has counted
  lastWrite    \* per data row: the last write the sheet accepted, and whose

locals == << config, max_posts_per_run, rows, now, i, candidates, k, media_id, tid, exc, posted >>
vars == << header, sheet, store, clock, pc, locals, log, everPosted, rePosted, started,
          lastWrite >>

\* ----------------------------------------------------------- initial state
\* The rows a queue holds when a run starts: a due, eligible, text-only row
\* (Base); the rows that differ from it in one cell the selection reads; rows
\* with a media path; and rows as an earlier run left them.
Base == Cells(TimeStr(1), Blk("a", MAX_TWEET_LEN), Empty, PENDING, Empty, Empty, Empty)

RowVals ==
  { Base }
  \cup { [Base EXCEPT ![1] = sa] : sa \in { SP } \cup { TimeStr(t) : t \in Times } }
  \cup { [Base EXCEPT ![2] = SP] }
  \cup { [Base EXCEPT ![4] = st] : st \in { POSTED, Blk("pending", 7) } }
  \cup { [Base EXCEPT ![6] = SP] }
  \cup { [Base EXCEPT ![3] = Blk("p", 1), ![4] = READY],
         [Base EXCEPT ![3] = Blk("p", 1), ![1] = Blk("x", 1)],
         [Base EXCEPT ![3] = Blk("p", 1), ![2] = Blk("a", MAX_TWEET_LEN + 1),
                      ![5] = TimeStr(1)] }
  \cup { [Base EXCEPT ![4] = ERROR, ![7] = Blk("tweet post failed: ", 23)],
         [Base EXCEPT ![5] = TimeStr(1), ![6] = Blk("9", 1)] }

\* the rows as their author appends them: queued, nothing filled in by a run
Created ==
  { r \in RowVals : r[4] \in {PENDING, READY} /\ r[5] = Empty /\ r[6] = Empty
                                               /\ r[7] = Empty }

Idle == [p \in Runs |-> "idle"]

\* what the range A1:G1 may hold: the expected names, nothing, the names
\* without the last, the names with another in one cell
Headers ==
  { HEADERS, << >>, SubSeq(HEADERS, 1, Len(HEADERS) - 1),
    [HEADERS EXCEPT ![4] = Blk("state", 5)] }

\* no run has written the row
NoWrite == [by |-> "none", val |-> << >>]

\* the state before any run: the header among hs, the rows among rs, the
\* store being st
InitWith(hs, rs, st) ==
  /\ header \in hs
  /\ sheet \in UNION { [1 .. n -> rs] : n \in 0 .. NumRows }
  /\ store = st
  /\ clock = MaxTime - 1      \* one schedulable time is still ahead
  /\ pc = Idle
  /\ config = [p \in Runs |-> "unset"]
  /\ max_posts_per_run = [p \in Runs |-> 1]
  /\ rows = [p \in Runs |-> << >>]
  /\ now = [p \in Runs |-> 0]
  /\ i = [p \in Runs |-> 1]
  /\ candidates = [p \in Runs |-> << >>]
  /\ k = [p \in Runs |-> 1]
  /\ media_id = [p \in Runs |-> None]
  /\ tid = [p \in Runs |-> None]
  /\ exc = [p \in Runs |-> None]
  /\ posted = [p \in Runs |-> 0]
  /\ log = [p \in Runs |-> << >>]
  /\ everPosted = {}
  /\ rePosted = {}
  /\ started = 0
  /\ lastWrite = [j \in DOMAIN sheet |-> NoWrite]

\* the expected header; any call to the sheet may fail
Init == InitWith({ HEADERS }, RowVals, "flaky")

\* the expected header; the sheet answers every call
InitUp == InitWith({ HEADERS }, RowVals, "up")

\* any header, over a queue of rows as appended; any call may fail
InitHeader == InitWith(Headers, Created, "flaky")

\* a queue of rows as appended, under the expected header, on a sheet that
\* answers every call
InitLive == InitWith({ HEADERS }, Created, "up")

\* ------------------------------------------------------------------ events
\* op "attempt": the publishing loop took the row; "upload", "post": a request
\* was sent for it (val: the upload response, the tweet id or the error);
\* "write": update_row_full was called with the row val (ok: it returned);
\* "print": a line of output
Ev(op, row, val, ok) == [op |-> op, row |-> row, val |-> val, ok |-> ok]
Logged(p, e) == log' = [log EXCEPT ![p] = Append(@, e)]

\* update_row_full, but a cell the new row leaves empty keeps what it held
update_row_full_Patch(sh, row_index, new_row_7cols) ==
  [sh EXCEPT ![row_index - 1] =
     [c \in 1 .. NCOLS |-> IF new_row_7cols[c] = Empty THEN @[c] ELSE new_row_7cols[c]]]

\* update_row_full, addressing the line below
update_row_full_LineBelow(sh, row_index, new_row_7cols) ==
  IF row_index \in DOMAIN sh THEN [sh EXCEPT ![row_index] = new_row_7cols] ELSE sh

\* update_row_full(svc, ..., row_index, new_row_7cols): the sheet after a call
\* that returned (a list of another length raises before the request)
update_row_full(sh, row_index, new_row_7cols) ==
  IF Len(new_row_7cols) # NCOLS THEN sh
  ELSE [sh EXCEPT ![row_index - 1] = new_row_7cols]

\* new_row, with the status cell as read
new_row_StatusAsRead(r, st, pa, ti, em) ==
  << PyStr(r.scheduled_at), PyStr(r.text), PyStr(r.media_path), r.status, pa, ti, em >>

\* a call update_row_full(..., row_index, nr) by run p: the sheet takes the row
\* if the call returned
Stored(p, row_index, nr, writeok) ==
  /\ sheet' = IF writeok THEN update_row_full(sheet, row_index, nr) ELSE sheet
  /\ lastWrite' = IF writeok
                    THEN [lastWrite EXCEPT ![row_index - 1] = [by |-> p, val |-> nr]]
                    ELSE lastWrite

\* the row run() writes for r with the given status, posted_at, tweet_id, message
new_row(r, st, pa, ti, em) ==
  << PyStr(r.scheduled_at), PyStr(r.text), PyStr(r.media_path), st, pa, ti, em >>

\* ------------------------------------------------------------------ run()
\* lines 169-200: the enable flag, the required variables, the sheets client
\* cfg is the environment of the process, m its MAX_POSTS_PER_RUN
Start(p, cfg, m) ==
  /\ pc[p] = "idle"
  /\ config' = [config EXCEPT ![p] = cfg]
  /\ max_posts_per_run' =
       IF cfg \in {"disabled", "missing_env"}      \* line 191 is not reached
         THEN max_posts_per_run
         ELSE [max_posts_per_run EXCEPT ![p] = m]
  /\ IF cfg = "disabled"
       THEN /\ pc' = [pc EXCEPT ![p] = "done"]
            /\ Logged(p, Ev("print", 0, Blk("ENABLE_RUN=false", 16), TRUE))
       ELSE /\ pc' = [pc EXCEPT ![p] =
                        IF cfg = "ok" THEN "ensure_header" ELSE "aborted"]
            /\ UNCHANGED log
  /\ UNCHANGED << header, store, sheet, lastWrite, clock, rows, now, i, candidates, k, media_id,
                  tid, exc, posted, everPosted, rePosted >>

\* the outcomes of a call to the sheet: TRUE, it answered
StoreOutcomes == IF store = "up" THEN { TRUE } ELSE BOOLEAN

\* HeaderDiffers, comparing the number of cells only
HeaderDiffers_LengthOnly(h) == Len(h) # Len(HEADERS)

\* lines 78 and 94: the first row read is not the expected names
HeaderDiffers(h) == h # HEADERS

\* line 201, ensure_header
ensure_header(p) ==
  /\ pc[p] = "ensure_header"
  /\ \E readok \in StoreOutcomes :
       LET values == IF header = << >> THEN << >> ELSE << header >>
       IN  pc' = [pc EXCEPT ![p] =
                    IF ~readok \/ values = << >> \/ HeaderDiffers(values[1])
                      THEN "aborted" ELSE "read_queue_rows"]
  /\ UNCHANGED << header, store, sheet, lastWrite, clock, locals, log, everPosted, rePosted, started >>

\* lines 203-204, read_queue_rows and the time
read_queue_rows(p) ==
  /\ pc[p] = "read_queue_rows"
  /\ \E readok \in StoreOutcomes :
       LET values == IF header = << >> /\ \A j \in DOMAIN sheet : ApiRow(sheet[j]) = << >>
                       THEN << >>
                       ELSE << header >> \o [j \in DOMAIN sheet |-> ApiRow(sheet[j])]
       IN  IF ~readok \/ (values # << >> /\ HeaderDiffers(values[1]))
             THEN /\ pc' = [pc EXCEPT ![p] = "aborted"]
                  /\ UNCHANGED << rows, now >>
             ELSE /\ pc' = [pc EXCEPT ![p] = "select"]
                  /\ rows' = [rows EXCEPT ![p] =
                       [j \in 1 .. (Len(values) - 1) |-> RowDict(j + 1, values[j + 1])]]
                  /\ now' = [now EXCEPT ![p] = clock]
  /\ i' = [i EXCEPT ![p] = 1]
  /\ candidates' = [candidates EXCEPT ![p] = << >>]
  /\ UNCHANGED << header, store, sheet, lastWrite, clock, config, max_posts_per_run, k, media_id, tid, exc,
                  posted, log, everPosted, rePosted, started >>

\* Skipped, without the tweet_id test of line 210
Skipped_NoTweetId(r) ==
  \/ ~Truthy(Strip(PyStr(r.scheduled_at)))
  \/ r.status \notin {PENDING, READY}
  \/ ~Truthy(Strip(PyStr(r.text)))

\* Skipped, with ERROR taken for an eligible status at line 212
Skipped_ErrorEligible(r) ==
  \/ ~Truthy(Strip(PyStr(r.scheduled_at)))
  \/ Truthy(Strip(PyStr(r.tweet_id)))
  \/ r.status \notin {PENDING, READY, ERROR}
  \/ ~Truthy(Strip(PyStr(r.text)))

\* lines 208-215: the row is skipped
Skipped(r) ==
  \/ ~Truthy(Strip(PyStr(r.scheduled_at)))
  \/ Truthy(Strip(PyStr(r.tweet_id)))
  \/ r.status \notin {PENDING, READY}
  \/ ~Truthy(Strip(PyStr(r.text)))

\* IsDue, one time unit early
IsDue_Ahead(sched, n) == sched <= n + 1

\* line 232
IsDue(sched, n) == sched <= n

\* lines 207-233, one iteration of the selection loop
select_row(p) ==
  /\ pc[p] = "select"
  /\ i[p] <= Len(rows[p])
  /\ LET r == rows[p][i[p]]
         sched == parse_scheduled_at(PyStr(r.scheduled_at))
     IN  IF Skipped(r)
           THEN UNCHANGED << sheet, lastWrite, candidates, pc, log >>
           ELSE IF ~sched.ok
             THEN LET nr == new_row(r, ERROR, PyStr(r.posted_at), PyStr(r.tweet_id), MsgInvalid)
                  IN  \E writeok \in StoreOutcomes :
                        /\ Logged(p, Ev("write", r.row_index, nr, writeok))
                        /\ Stored(p, r.row_index, nr, writeok)
                        /\ pc' = IF writeok THEN pc ELSE [pc EXCEPT ![p] = "aborted"]
                        /\ UNCHANGED candidates
             ELSE /\ candidates' = IF IsDue(sched.t, now[p])
                                     THEN [candidates EXCEPT ![p] = Append(@, << sched.t, r >>)]
                                     ELSE candidates
                  /\ UNCHANGED << sheet, lastWrite, pc, log >>
  /\ i' = [i EXCEPT ![p] = @ + 1]
  /\ UNCHANGED << header, store, clock, config, max_posts_per_run, rows, now, k, media_id, tid,
                  exc, posted, everPosted, rePosted, started >>

\* lines 235-238
sort_candidates(p) ==
  /\ pc[p] = "select"
  /\ i[p] > Len(rows[p])
  /\ candidates' = [candidates EXCEPT ![p] = Slice(SortByKey(@), max_posts_per_run[p])]
  /\ k' = [k EXCEPT ![p] = 1]
  /\ posted' = [posted EXCEPT ![p] = 0]
  /\ pc' = [pc EXCEPT ![p] = "loop"]
  /\ UNCHANGED << header, store, sheet, lastWrite, clock, config, max_posts_per_run, rows, now, i, media_id,
                  tid, exc, log, everPosted, rePosted, started >>

\* TooLong, off by one
TooLong_OffByOne(text) == PyLen(text) > MAX_TWEET_LEN + 1

\* line 242
TooLong(text) == PyLen(text) > MAX_TWEET_LEN

\* lines 239-247: the next candidate, its length check, its media path
begin_candidate(p) ==
  /\ pc[p] = "loop"
  /\ k[p] <= Len(candidates[p])
  /\ LET r == candidates[p][k[p]][2]
         text == PyStr(r.text)
         media_path == Strip(PyStr(r.media_path))
     IN  /\ Logged(p, Ev("attempt", r.row_index, Empty, TRUE))
         /\ IF TooLong(text)
              THEN /\ exc' = [exc EXCEPT ![p] = MsgTooLong]
                   /\ pc' = [pc EXCEPT ![p] = "except"]
              ELSE /\ exc' = [exc EXCEPT ![p] = None]
                   /\ pc' = [pc EXCEPT ![p] = IF Truthy(media_path) THEN "upload_media"
                                               ELSE "post_to_x"]
  /\ media_id' = [media_id EXCEPT ![p] = None]
  /\ tid' = [tid EXCEPT ![p] = None]
  /\ UNCHANGED << header, store, sheet, lastWrite, clock, config, max_posts_per_run, rows, now, i, candidates,
                  k, posted, everPosted, rePosted, started >>

\* line 248
upload_candidate(p) ==
  /\ pc[p] = "upload_media"
  /\ LET r == candidates[p][k[p]][2]
         media_path == Strip(PyStr(r.media_path))
     IN  \E isfile \in BOOLEAN, res \in UploadResults :
           LET out == upload_media(media_path, isfile, res)
           IN  /\ IF isfile
                    THEN Logged(p, Ev("upload", r.row_index, res, out.ok))
                    ELSE UNCHANGED log
               /\ IF out.ok
                    THEN /\ media_id' = [media_id EXCEPT ![p] = out.val]
                         /\ pc' = [pc EXCEPT ![p] = "post_to_x"]
                         /\ UNCHANGED exc
                    ELSE /\ exc' = [exc EXCEPT ![p] = out.val]
                         /\ pc' = [pc EXCEPT ![p] = "except"]
                         /\ UNCHANGED media_id
  /\ UNCHANGED << header, store, sheet, lastWrite, clock, config, max_posts_per_run, rows, now, i, candidates,
                  k, tid, posted, everPosted, rePosted, started >>

\* line 250
post_candidate(p) ==
  /\ pc[p] = "post_to_x"
  /\ LET r == candidates[p][k[p]][2]
     IN  \E res \in PostResults :
           LET out == post_to_x(res)
           IN  /\ Logged(p, Ev("post", r.row_index, out.val, out.ok))
               /\ rePosted' = IF r.row_index \in everPosted
                                THEN rePosted \cup {r.row_index} ELSE rePosted
               /\ IF out.ok
                    THEN /\ tid' = [tid EXCEPT ![p] = out.val]
                         /\ everPosted' = everPosted \cup {r.row_index}
                         /\ pc' = [pc EXCEPT ![p] = "posted"]
                         /\ UNCHANGED exc
                    ELSE /\ exc' = [exc EXCEPT ![p] = out.val]
                         /\ pc' = [pc EXCEPT ![p] = "except"]
                         /\ UNCHANGED << tid, everPosted >>
  /\ UNCHANGED << header, store, sheet, lastWrite, clock, config, max_posts_per_run, rows, now, i, candidates,
                  k, media_id, posted, started >>

\* lines 252-263: the POSTED row
write_posted(p) ==
  /\ pc[p] = "posted"
  /\ LET r == candidates[p][k[p]][2]
         nr == new_row(r, POSTED, now_jst_str(clock), tid[p], Empty)
     IN  \E writeok \in StoreOutcomes :
           /\ Stored(p, r.row_index, nr, writeok)
           /\ IF writeok
                THEN /\ log' = [log EXCEPT ![p] =
                          @ \o << Ev("write", r.row_index, nr, TRUE),
                                  Ev("print", r.row_index, POSTED, TRUE) >>]
                     /\ posted' = [posted EXCEPT ![p] = @ + 1]
                     /\ k' = [k EXCEPT ![p] = @ + 1]
                     /\ pc' = [pc EXCEPT ![p] = "loop"]
                     /\ UNCHANGED exc
                ELSE /\ Logged(p, Ev("write", r.row_index, nr, FALSE))
                     /\ exc' = [exc EXCEPT ![p] = MsgStore]
                     /\ pc' = [pc EXCEPT ![p] = "except"]
                     /\ UNCHANGED << posted, k >>
  /\ UNCHANGED << header, store, clock, config, max_posts_per_run, rows, now, i, candidates,
                  media_id, tid, everPosted, rePosted, started >>

\* write_error, but the loop takes the same candidate again
write_error_Retry(p) ==
  /\ pc[p] = "except"
  /\ LET r == candidates[p][k[p]][2]
         nr == new_row(r, ERROR, PyStr(r.posted_at), PyStr(r.tweet_id), MsgTruncate(exc[p]))
     IN  /\ Stored(p, r.row_index, nr, TRUE)
         /\ Logged(p, Ev("write", r.row_index, nr, TRUE))
         /\ pc' = [pc EXCEPT ![p] = "loop"]
  /\ UNCHANGED << header, store, clock, config, max_posts_per_run, rows, now, i,
                  candidates, k, media_id, tid, exc, posted, everPosted, rePosted,
                  started >>

\* lines 265-277: the ERROR row
write_error(p) ==
  /\ pc[p] = "except"
  /\ LET r == candidates[p][k[p]][2]
         msg == MsgTruncate(exc[p])
         nr == new_row(r, ERROR, PyStr(r.posted_at), PyStr(r.tweet_id), msg)
     IN  \E writeok \in StoreOutcomes :
           /\ Stored(p, r.row_index, nr, writeok)
           /\ IF writeok
                THEN /\ log' = [log EXCEPT ![p] =
                          @ \o << Ev("write", r.row_index, nr, TRUE),
                                  Ev("print", r.row_index, ERROR, TRUE) >>]
                     /\ k' = [k EXCEPT ![p] = @ + 1]
                     /\ pc' = [pc EXCEPT ![p] = "loop"]
                ELSE /\ Logged(p, Ev("write", r.row_index, nr, FALSE))
                     /\ pc' = [pc EXCEPT ![p] = "aborted"]
                     /\ UNCHANGED k
  /\ UNCHANGED << header, store, clock, config, max_posts_per_run, rows, now, i, candidates,
                  media_id, tid, exc, posted, everPosted, rePosted, started >>

\* Summary, printing nothing
Summary_Silent(n) == << >>

\* lines 279-280: what the run prints at its end, n rows posted
Summary(n) ==
  IF n = 0 THEN << Ev("print", 0, Blk("No posts to send now.", 21), TRUE) >>
  ELSE << >>

\* lines 279-280
finish(p) ==
  /\ pc[p] = "loop"
  /\ k[p] > Len(candidates[p])
  /\ log' = [log EXCEPT ![p] = @ \o Summary(posted[p])]
  /\ pc' = [pc EXCEPT ![p] = "done"]
  /\ UNCHANGED << header, store, sheet, lastWrite, clock, locals, everPosted, rePosted, started >>

\* the process has ended (normally or by the exception): the next invocation
\* starts from fresh locals
exit(p) ==
  /\ pc[p] \in {"done", "aborted"}
  /\ pc' = [pc EXCEPT ![p] = "idle"]
  /\ config' = [config EXCEPT ![p] = "unset"]
  /\ max_posts_per_run' = [max_posts_per_run EXCEPT ![p] = 1]
  /\ rows' = [rows EXCEPT ![p] = << >>]
  /\ now' = [now EXCEPT ![p] = 0]
  /\ i' = [i EXCEPT ![p] = 1]
  /\ candidates' = [candidates EXCEPT ![p] = << >>]
  /\ k' = [k EXCEPT ![p] = 1]
  /\ media_id' = [media_id EXCEPT ![p] = None]
  /\ tid' = [tid EXCEPT ![p] = None]
  /\ exc' = [exc EXCEPT ![p] = None]
  /\ posted' = [posted EXCEPT ![p] = 0]
  /\ log' = [log EXCEPT ![p] = << >>]
  /\ UNCHANGED << header, store, sheet, lastWrite, clock, everPosted, rePosted, started >>

\* --------------------------------------------------------- the environment
\* someone re-queues a finished row between runs: its status cell only
external_reset(j, st) ==
  /\ pc = Idle
  /\ started < MaxRuns
  /\ sheet[j][4] \notin {PENDING, READY}
  /\ sheet' = [sheet EXCEPT ![j][4] = st]
  /\ lastWrite' = [lastWrite EXCEPT ![j] = NoWrite]
  /\ UNCHANGED << header, store, clock, pc, locals, log, everPosted, rePosted, started >>

\* time passes between runs
tick ==
  /\ pc = Idle
  /\ started < MaxRuns
  /\ clock < MaxTime
  /\ clock' = clock + 1
  /\ UNCHANGED << header, store, sheet, lastWrite, pc, locals, log, everPosted, rePosted, started >>

\* run() once started
steps(p) ==
  \/ ensure_header(p)
  \/ read_queue_rows(p)
  \/ select_row(p)
  \/ sort_candidates(p)
  \/ begin_candidate(p)
  \/ upload_candidate(p)
  \/ post_candidate(p)
  \/ write_posted(p)
  \/ write_error(p)
  \/ finish(p)
  \/ exit(p)

\* the scheduler invokes run() once, in any environment
invoke(p) ==
  /\ started = 0
  /\ started' = 1
  /\ \E cfg \in Configs, m \in Caps : Start(p, cfg, m)

\* the scheduler invokes run() again, MaxRuns times at most
reinvoke(p) ==
  /\ started < MaxRuns
  /\ started' = started + 1
  /\ \E cfg \in Configs, m \in Caps : Start(p, cfg, m)

\* one invocation of run(), from any queue
Next ==
  \/ invoke("r1")
  \/ steps("r1")

Spec == Init /\ [][Next]_vars

\* one invocation of run(), the sheet answering every call
SpecUp == InitUp /\ [][Next]_vars

\* one invocation of run(), under any header
SpecHeader == InitHeader /\ [][Next]_vars

\* invocations one after the other (the scheduler starts the next when the last
\* has ended), the queue re-queued and the clock advancing in between
NextRuns ==
  \/ reinvoke("r1")
  \/ steps("r1")
  \/ \E j \in DOMAIN sheet, st \in {PENDING, READY} : external_reset(j, st)
  \/ tick

SpecRuns == Init /\ [][NextRuns]_vars

\* the periodic trigger: a configured run with a cap of at least 1, as often
\* as it takes (the invocations are not counted)
schedule(p) ==
  /\ UNCHANGED started
  /\ \E m \in 1 .. MaxCap : Start(p, "ok", m)

\* the periodic trigger again and again, no run overlapping another, time
\* passing in between, nobody else editing the queue
NextLive ==
  \/ schedule("r1")
  \/ steps("r1")
  \/ tick

\* the trigger keeps firing and a started run keeps going; the sheet answers
\* every call
SpecLive ==
  InitLive /\ [][NextLive]_vars /\ WF_vars(schedule("r1")) /\ WF_vars(steps("r1"))

\* a queue of rows as appended, under the expected header, on a sheet that
\* answers every call
InitOverlap == InitWith({ HEADERS }, Created, "up")

\* the trigger fires for the first time
trigger(p) ==
  /\ started = 0
  /\ started' = 1
  /\ \E m \in 1 .. MaxCap : Start(p, "ok", m)

\* the trigger fires again while the run q it started before has not ended
overlap(p, q) ==
  /\ started \in 1 .. (MaxRuns - 1)
  /\ pc[q] # "idle"
  /\ started' = started + 1
  /\ \E m \in 1 .. MaxCap : Start(p, "ok", m)

\* two processes on the same sheet, their steps interleaved
NextOverlap ==
  \/ trigger("r1")
  \/ steps("r1")
  \/ overlap("r2", "r1")
  \/ steps("r2")

SpecOverlap == InitOverlap /\ [][NextOverlap]_vars

\* ================================================================ properties
\* What a run did, read off its log.  A sheet line is a row_index (>= 2).
Idx(p)          == 1 .. Len(log[p])
Loaded(p, line) == rows[p][line - 1]
\* the row_index values of the load: the j-th row read is sheet line j + 1
LinesOf(p)      == 2 .. (Len(rows[p]) + 1)
Did(p, ops, line) ==
  { n \in Idx(p) : log[p][n].op \in ops /\ log[p][n].row = line }
Has(p, ops, line) ==
  \E n \in Idx(p) : log[p][n].op \in ops /\ log[p][n].row = line
Touched(p, line) == Has(p, {"attempt", "upload", "post", "write"}, line)
InCandidates(p, line) ==
  \E c \in 1 .. Len(candidates[p]) : candidates[p][c][2].row_index = line
IsAttempt(e)    == e.op = "attempt"
Attempts(p)     == SelectSeq(log[p], IsAttempt)
SchedOf(r)      == parse_scheduled_at(r.scheduled_at)
\* the row is one the selection keeps and finds due
Due(p, r) ==
  /\ Truthy(Strip(r.scheduled_at))
  /\ ~Truthy(Strip(r.tweet_id))
  /\ r.status \in {PENDING, READY}
  /\ Truthy(Strip(r.text))
  /\ SchedOf(r).ok
  /\ IsDue(SchedOf(r).t, now[p])
\* the candidate list is final: the run is in, or past, the publishing loop
Publishing(p) ==
  pc[p] \in {"loop", "upload_media", "post_to_x", "posted", "except", "done"}

\* C1: once a publish call for a row has returned a post identifier, no later
\* run issues another publish request for that row, whatever became of the
\* write-back.  (Stated as the claim has it; the code violates it.)
C1_NoSecondPublish == rePosted = {}

\* C2, as stated: a loaded row whose tweet_id is non-empty is never a candidate
\* and is never attempted, published or written.
C2_NonEmptyTweetIdUntouched ==
  \A p \in Runs : \A line \in LinesOf(p) :
    Loaded(p, line).tweet_id # Empty
      => ~InCandidates(p, line) /\ ~Touched(p, line)

\* C2, amended: a loaded row whose tweet_id is non-empty after trimming
\* whitespace is never a candidate and is never attempted, published or written.
C2_NonBlankTweetIdUntouched ==
  \A p \in Runs : \A line \in LinesOf(p) :
    Truthy(Strip(Loaded(p, line).tweet_id))
      => ~InCandidates(p, line) /\ ~Touched(p, line)

\* a completed run, with a positive cap, that loaded a row which is due and
\* eligible in every other cell and carries a tweet id
C2_Witness ==
  \E p \in Runs : \E line \in LinesOf(p) :
    LET r == Loaded(p, line)
    IN  /\ pc[p] = "done"
        /\ max_posts_per_run[p] >= 1
        /\ Truthy(Strip(r.tweet_id))
        /\ Due(p, [r EXCEPT !.tweet_id = Empty])

\* C3: a failure while processing a candidate (length check, upload, publish,
\* or a store call made for it) never aborts the run.  (Stated as the claim has
\* it; the code violates it.)
C3_CandidateFailureNeverAborts ==
  \A p \in Runs : pc[p] = "aborted" => Attempts(p) = << >>

\* C4: a row whose status at load time is not PENDING or READY is not a
\* candidate and is neither attempted, published nor written by the run.
C4_IneligibleStatusUntouched ==
  \A p \in Runs : \A line \in LinesOf(p) :
    Loaded(p, line).status \notin {PENDING, READY}
      => ~InCandidates(p, line) /\ ~Touched(p, line)

\* a completed run that loaded a row left as ERROR, with its message, by an
\* earlier run, due and eligible in every other cell
C4_Witness ==
  \E p \in Runs : \E line \in LinesOf(p) :
    LET r == Loaded(p, line)
    IN  /\ pc[p] = "done"
        /\ max_posts_per_run[p] >= 1
        /\ r.status = ERROR
        /\ r.error_message # Empty
        /\ Due(p, [r EXCEPT !.status = PENDING])

\* the order the claim speaks of: by scheduled time, then by sheet line
Before(p, a, b) ==
  LET ta == SchedOf(Loaded(p, a)).t
      tb == SchedOf(Loaded(p, b)).t
  IN  ta < tb \/ (ta = tb /\ a < b)

\* C5: each attempt of a run comes before the next in the order (scheduled
\* time, then sheet line), and every due row left out by the cap comes after
\* every row that was kept.
C5_AttemptOrder ==
  \A p \in Runs :
    LET att == Attempts(p)
    IN  /\ \A n \in 1 .. (Len(att) - 1) : Before(p, att[n].row, att[n + 1].row)
        /\ Publishing(p) =>
             \A b \in LinesOf(p) :
               ~InCandidates(p, b) /\ Due(p, Loaded(p, b))
                 => \A c \in 1 .. Len(candidates[p]) :
                      Before(p, candidates[p][c][2].row_index, b)

\* a completed run that attempted the later sheet line first
C5_Witness ==
  \E p \in Runs :
    /\ pc[p] = "done"
    /\ Len(Attempts(p)) = 2
    /\ Attempts(p)[1].row > Attempts(p)[2].row

\* the due rows of a run's load
DueLines(p) == { line \in LinesOf(p) : Due(p, Loaded(p, line)) }

\* C6: the number of candidates attempted in a run never exceeds the cap M; a
\* cap of zero or less yields no attempt; for M >= 0 a run that completes has
\* attempted exactly min(M, D) of its D due rows.  (Stated as the claim has it;
\* the code violates it.)
C6_AttemptsWithinCap ==
  \A p \in Runs :
    LET M == max_posts_per_run[p]
        n == Len(Attempts(p))
    IN  /\ n <= Max(M, 0)
        /\ pc[p] = "done" /\ M >= 0 => n = Min(M, Cardinality(DueLines(p)))

\* the response carries a media identifier
HasMediaId(res) == Truthy(res.media_id_string) \/ res.media_id # None

\* C7: a candidate with a media path is published only after an upload that
\* answered below 400 with a media identifier.  (Stated as the claim has it; the
\* code violates it.)
C7_PublishOnlyAfterMediaId ==
  \A p \in Runs : \A n \in Idx(p) :
    LET e == log[p][n]
    IN  e.op = "post" /\ Truthy(Strip(Loaded(p, e.row).media_path))
          => \E m \in 1 .. (n - 1) :
               /\ log[p][m].op = "upload"
               /\ log[p][m].row = e.row
               /\ log[p][m].val.status < HTTP_ERROR
               /\ HasMediaId(log[p][m].val)

\* C8: an otherwise-eligible row (non-empty scheduled_at, empty tweet_id, status
\* PENDING or READY, non-empty trimmed text) whose scheduled_at does not parse
\* is, once the selection has passed it, written back as ERROR with "invalid
\* scheduled_at" and every other cell as read, is never attempted, and the run
\* has not aborted on it.  (Stated as the claim has it; the code violates it.)
C8_InvalidScheduledAtRecorded ==
  \A p \in Runs : \A line \in LinesOf(p) :
    LET r == Loaded(p, line)
    IN  /\ i[p] > line - 1
        /\ r.scheduled_at # Empty
        /\ r.tweet_id = Empty
        /\ r.status \in {PENDING, READY}
        /\ Truthy(Strip(r.text))
        /\ ~SchedOf(r).ok
        => /\ \E n \in Did(p, {"write"}, line) :
                /\ log[p][n].ok
                /\ log[p][n].val = << r.scheduled_at, r.text, r.media_path, ERROR,
                                      r.posted_at, r.tweet_id, MsgInvalid >>
           /\ ~Has(p, {"attempt", "upload", "post"}, line)
           /\ pc[p] # "aborted"

\* the candidate the publishing loop is at
Current(p) == candidates[p][k[p]][2].row_index

\* C9: for a candidate whose text is longer than 280 characters no upload and
\* no publish request is made, and the write-back made for it (made as soon as
\* the handler runs) has status ERROR; a text of 280 characters or fewer is
\* never refused as too long.
C9_TooLongNeverSent ==
  \A p \in Runs : \A line \in LinesOf(p) :
    Has(p, {"attempt"}, line) =>
      LET r == Loaded(p, line)
          refused == pc[p] = "except" /\ Current(p) = line /\ exc[p] = MsgTooLong
      IN  IF PyLen(r.text) > MAX_TWEET_LEN
            THEN /\ ~Has(p, {"upload", "post"}, line)
                 /\ \A n \in Did(p, {"write"}, line) : log[p][n].val[4] = ERROR
                 /\ refused \/ Has(p, {"write"}, line)
            ELSE /\ ~refused
                 /\ \A n \in Did(p, {"write"}, line) : log[p][n].val[7] # MsgTooLong

\* a completed run that refused a 281-character row with a media path and
\* wrote it back, and took a 280-character row as far as the publish request
C9_Witness ==
  \E p \in Runs : \E a, b \in LinesOf(p) :
    /\ pc[p] = "done"
    /\ PyLen(Loaded(p, a).text) = MAX_TWEET_LEN + 1
    /\ Truthy(Strip(Loaded(p, a).media_path))
    /\ \E n \in Did(p, {"write"}, a) : log[p][n].ok
    /\ PyLen(Loaded(p, b).text) = MAX_TWEET_LEN
    /\ Has(p, {"post"}, b)

\* C10: whenever a candidate's publish succeeds, the row written back for it
\* has status POSTED, the returned identifier as tweet_id, a non-empty
\* posted_at, an empty error_message, and scheduled_at, text and media_path as
\* read.  (Stated as the claim has it; the code violates it.)
C10_PublishedRowWrittenPosted ==
  \A p \in Runs : \A n \in Idx(p) :
    LET e == log[p][n]
    IN  e.op = "post" /\ e.ok =>
          \A m \in Did(p, {"write"}, e.row) :
            LET w == log[p][m].val
                r == Loaded(p, e.row)
            IN  /\ w[4] = POSTED
                /\ w[6] = e.val /\ w[6] # Empty
                /\ w[5] # Empty
                /\ w[7] = Empty
                /\ w[1] = r.scheduled_at /\ w[2] = r.text /\ w[3] = r.media_path

\* the candidates of a run that failed: taken by the publishing loop, and no
\* publish call returned an identifier for them
FailedLines(p) ==
  { line \in LinesOf(p) :
      /\ Has(p, {"attempt"}, line)
      /\ \A n \in Did(p, {"post"}, line) : ~log[p][n].ok }

\* the row w is the loaded row r with status ERROR and a message of at most
\* 500 characters, every other cell as read
ErrorFrame(w, r) ==
  /\ w[1] = r.scheduled_at /\ w[2] = r.text /\ w[3] = r.media_path
  /\ w[4] = ERROR
  /\ w[5] = r.posted_at /\ w[6] = r.tweet_id
  /\ w[7] # Empty /\ PyLen(w[7]) <= MSG_LIMIT

\* the message written for a failed publish request is its error text, cut
FailureMessage(p, line, w) ==
  \A n \in Did(p, {"post"}, line) : w[7] = Prefix(log[p][n].val, MSG_LIMIT)

\* C11, as stated: every row written back for a failed candidate is the row
\* as loaded with status ERROR and the failure description (at most 500
\* characters), and its tweet_id is empty.
C11_FailureFrameEmptyId ==
  \A p \in Runs : \A line \in FailedLines(p) : \A n \in Did(p, {"write"}, line) :
    /\ ErrorFrame(log[p][n].val, Loaded(p, line))
    /\ FailureMessage(p, line, log[p][n].val)
    /\ log[p][n].val[6] = Empty

\* C11, amended: every row written back for a failed candidate is the row as
\* loaded with status ERROR and the failure description (at most 500
\* characters); its tweet_id is as read, empty once whitespace is trimmed.
C11_FailureFrame ==
  \A p \in Runs : \A line \in FailedLines(p) : \A n \in Did(p, {"write"}, line) :
    /\ ErrorFrame(log[p][n].val, Loaded(p, line))
    /\ FailureMessage(p, line, log[p][n].val)
    /\ Strip(log[p][n].val[6]) = Empty

\* a completed run in which a candidate that carried a posted_at failed and
\* was written back, and so was one that failed with a publish HTTP error
\* whose text is longer than 500 characters
C11_Witness ==
  \E p \in Runs : \E a, b \in FailedLines(p) :
    /\ pc[p] = "done"
    /\ Loaded(p, a).posted_at # Empty
    /\ \E n \in Did(p, {"write"}, a) : log[p][n].ok
    /\ \E n \in Did(p, {"post"}, b) : PyLen(log[p][n].val) > MSG_LIMIT
    /\ \E n \in Did(p, {"write"}, b) :
         log[p][n].ok /\ PyLen(log[p][n].val[7]) = MSG_LIMIT

\* C12: a loaded row whose scheduled time parses and is later than the time
\* the run took after its load is never a candidate and is never attempted,
\* sent or written; a row scheduled exactly at that time is due: when the cap
\* leaves room for every row, the publishing loop has it as a candidate.
C12_NotDueUntouched ==
  \A p \in Runs : \A line \in LinesOf(p) :
    LET r == Loaded(p, line)
        sched == SchedOf(r)
    IN  /\ sched.ok /\ sched.t > now[p]
          => ~InCandidates(p, line) /\ ~Touched(p, line)
        /\ /\ Publishing(p)
           /\ max_posts_per_run[p] >= Len(rows[p])
           /\ sched.ok /\ sched.t = now[p]
           /\ Due(p, [r EXCEPT !.scheduled_at = TimeStr(1)])
           => InCandidates(p, line)

\* a completed run that loaded a row scheduled later than its time, eligible
\* in every other cell, and attempted a row scheduled exactly at its time
C12_Witness ==
  \E p \in Runs : \E a, b \in LinesOf(p) :
    /\ pc[p] = "done"
    /\ max_posts_per_run[p] >= Len(rows[p])
    /\ SchedOf(Loaded(p, a)).ok /\ SchedOf(Loaded(p, a)).t > now[p]
    /\ Due(p, [Loaded(p, a) EXCEPT !.scheduled_at = TimeStr(1)])
    /\ SchedOf(Loaded(p, b)).t = now[p]
    /\ Has(p, {"attempt"}, b)

\* the run has loaded, selected, sent or written nothing
NothingDone(p) ==
  /\ rows[p] = << >> /\ i[p] = 1 /\ candidates[p] = << >>
  /\ log[p] = << >>

\* C13: a run (not switched off by the enable flag) that lacks a required
\* variable or the service account credentials has aborted, and a run whose
\* header range differs from the expected names, in a cell or in length or by
\* being absent, never gets past the header check and aborts there; either
\* way no row has been loaded or selected, no request sent, no write made.
C13_ConfigurationErrorAborts ==
  \A p \in Runs :
    /\ config[p] \in {"missing_env", "no_service_account"}
         => pc[p] = "aborted" /\ NothingDone(p)
    /\ config[p] = "ok" /\ header # HEADERS
         => pc[p] \in {"ensure_header", "aborted"} /\ NothingDone(p)

\* a run that aborted on a header of 7 cells with another name in one of them,
\* the store answering and the queue holding a due, eligible row
C13_Witness ==
  \E p \in Runs :
    /\ pc[p] = "aborted"
    /\ config[p] = "ok"
    /\ Len(header) = Len(HEADERS) /\ header # HEADERS
    /\ sheet # << >> /\ sheet[1] = Base

\* the writes of a run that the sheet accepted, for one sheet line
OkWrites(p, line) == { n \in Did(p, {"write"}, line) : log[p][n].ok }
LastOf(S) == CHOOSE n \in S : \A m \in S : m <= n

\* C14: every write a run issues addresses one loaded sheet line with a row of
\* exactly 7 cells whose status is POSTED or ERROR, and a line the sheet
\* accepted a write for holds exactly the 7 cells last written to it.
C14_FullRowWrites ==
  \A p \in Runs :
    /\ \A n \in Idx(p) :
         log[p][n].op = "write" =>
           /\ log[p][n].row \in LinesOf(p)
           /\ Len(log[p][n].val) = NCOLS
           /\ log[p][n].val[4] \in {POSTED, ERROR}
    /\ \A line \in LinesOf(p) :
         OkWrites(p, line) # {} =>
           sheet[line - 1] = log[p][LastOf(OkWrites(p, line))].val

\* a completed run whose POSTED row for one line and ERROR row for another
\* were both accepted by the sheet
C14_Witness ==
  \E p \in Runs : \E a, b \in LinesOf(p) :
    /\ pc[p] = "done"
    /\ \E n \in OkWrites(p, a) : log[p][n].val[4] = POSTED
    /\ \E n \in OkWrites(p, b) : log[p][n].val[4] = ERROR

\* C15: within one run a candidate is taken once, gets at most one upload
\* request and at most one publish request, and a request that failed or timed
\* out is followed at once by the handler's ERROR write-back for that row and
\* by no further request for it.
C15_SingleRequestPerCandidate ==
  \A p \in Runs :
    /\ \A n, m \in Idx(p) :
         /\ n < m
         /\ log[p][n].op \in {"attempt", "upload", "post"}
         /\ log[p][n].op = log[p][m].op
         => log[p][n].row # log[p][m].row
    /\ \A n \in Idx(p) :
         log[p][n].op \in {"upload", "post"} /\ ~log[p][n].ok =>
           IF n = Len(log[p])
             THEN pc[p] = "except" /\ Current(p) = log[p][n].row
             ELSE /\ log[p][n + 1].op = "write"
                  /\ log[p][n + 1].row = log[p][n].row
                  /\ log[p][n + 1].val[4] = ERROR

\* a completed run of two candidates in which the publish request of the
\* first timed out and was written back, and the second was sent
C15_Witness ==
  \E p \in Runs :
    /\ pc[p] = "done"
    /\ Len(candidates[p]) = 2
    /\ \E n \in Did(p, {"post"}, candidates[p][1][2].row_index) :
         log[p][n].val = MsgTimeout
    /\ OkWrites(p, candidates[p][1][2].row_index) # {}
    /\ Has(p, {"post"}, candidates[p][2][2].row_index)

\* C16: on a sheet that holds the header and no data row, a configured run
\* whose store calls are answered never aborts, loads no row, has no
\* candidate, sends no request and writes nothing, and once complete has
\* printed the "no posts" line and nothing else.
C16_EmptyQueueCompletes ==
  \A p \in Runs :
    config[p] = "ok" /\ header = HEADERS /\ sheet = << >> =>
      /\ pc[p] # "aborted"
      /\ rows[p] = << >> /\ candidates[p] = << >>
      /\ \A n \in Idx(p) : log[p][n].op = "print"
      /\ pc[p] = "done" => log[p] = Summary(0) /\ Summary(0) # << >>

\* a completed run on the header-only sheet
C16_Witness ==
  \E p \in Runs :
    /\ pc[p] = "done"
    /\ config[p] = "ok" /\ header = HEADERS /\ sheet = << >>
    /\ max_posts_per_run[p] >= 1

\* the 7 cells of a loaded row
AsRead(r) ==
  << r.scheduled_at, r.text, r.media_path, r.status, r.posted_at, r.tweet_id,
     r.error_message >>

\* no write was issued for the line and the sheet holds it as loaded
Unwritten(p, line) ==
  ~Has(p, {"write"}, line) /\ sheet[line - 1] = AsRead(Loaded(p, line))

\* eligible in every other cell, but the scheduled_at does not parse
ParseFailed(r) ==
  /\ Truthy(Strip(r.scheduled_at)) /\ ~Truthy(Strip(r.tweet_id))
  /\ r.status \in {PENDING, READY} /\ Truthy(Strip(r.text))
  /\ ~SchedOf(r).ok

IdNonEmpty(r) == r.tweet_id # Empty
IdNonBlank(r) == Truthy(Strip(r.tweet_id))

\* the frame of a run, HasId being what counts as a row with a tweet_id
WriteFrame(HasId(_)) ==
  \A p \in Runs :
    /\ rows[p] # << >> => Len(sheet) = Len(rows[p])
    /\ \A line \in LinesOf(p) :
         LET r == Loaded(p, line)
             sched == SchedOf(r)
         IN  /\ sheet[line - 1][1] = r.scheduled_at
             /\ sheet[line - 1][2] = r.text
             /\ sheet[line - 1][3] = r.media_path
             /\ IF Has(p, {"write"}, line)
                  THEN /\ Has(p, {"attempt"}, line) \/ ParseFailed(r)
                       /\ r.scheduled_at # Empty /\ r.text # Empty
                       /\ ~HasId(r)
                       /\ r.status \in {PENDING, READY}
                       /\ sched.ok => IsDue(sched.t, now[p]) /\ InCandidates(p, line)
                  ELSE sheet[line - 1] = AsRead(r)

\* C17, as stated: the rows a run writes are its attempted candidates and the
\* otherwise-eligible rows whose scheduled_at does not parse; a row with an
\* empty scheduled_at or text, a non-empty tweet_id, an ineligible status, a
\* time not yet due, or due but cut by the cap, stays as loaded; the sheet keeps
\* its rows in their lines.
C17_OnlySelectedRowsWrittenNonEmptyId == WriteFrame(IdNonEmpty)

\* C17, amended: the same, for a tweet_id that is non-empty after trimming
\* whitespace.
C17_OnlySelectedRowsWritten == WriteFrame(IdNonBlank)

\* a completed run with a cap of 1 on two due rows: the first was attempted
\* and its write accepted, the second stayed as loaded
C17_Witness ==
  \E p \in Runs : \E a, b \in LinesOf(p) :
    /\ pc[p] = "done"
    /\ max_posts_per_run[p] = 1
    /\ Due(p, Loaded(p, a)) /\ Due(p, Loaded(p, b))
    /\ OkWrites(p, a) # {}
    /\ Unwritten(p, b)

\* the sheet holds at index j an eligible row whose scheduled time has arrived
StoredDue(j) ==
  /\ header = HEADERS
  /\ j \in DOMAIN sheet
  /\ Truthy(Strip(sheet[j][1])) /\ ~Truthy(Strip(sheet[j][6]))
  /\ sheet[j][4] \in {PENDING, READY} /\ Truthy(Strip(sheet[j][2]))
  /\ parse_scheduled_at(sheet[j][1]).ok
  /\ parse_scheduled_at(sheet[j][1]).t <= clock

\* a run has attempted the row at index j and the sheet holds it as POSTED or
\* ERROR
Settled(j) ==
  /\ j \in DOMAIN sheet
  /\ sheet[j][4] \in {POSTED, ERROR}
  /\ \E p \in Runs : Has(p, {"attempt"}, j + 1)

\* no run has an upload, a publish request or a write to its name
Quiet ==
  \A p \in Runs : \A n \in Idx(p) : log[p][n].op \notin {"upload", "post", "write"}

\* C18: under the periodic trigger, with a cap of at least 1, no external edit
\* and a store that answers, every stored eligible row whose time has arrived
\* is eventually attempted and held as POSTED or ERROR, whatever fails before
\* it, and from some run on no request is sent and nothing is written.
C18_EveryDueRowSettles ==
  /\ \A j \in 1 .. NumRows : StoredDue(j) ~> Settled(j)
  /\ <>[](header = HEADERS => Quiet)

\* between two runs, the earlier-scheduled row is held as ERROR with the
\* text of a failed publish request and the later one as POSTED
C18_Witness ==
  /\ pc = Idle
  /\ Len(sheet) = 2
  /\ sheet[1][4] = ERROR /\ sheet[1][7] = MsgTruncate(MsgPostFailed(Body))
  /\ sheet[2][4] = POSTED /\ sheet[2][6] \in TweetIds
  /\ parse_scheduled_at(sheet[1][1]).t < parse_scheduled_at(sheet[2][1]).t

\* the row w is one run p builds for the line from its own load: the first
\* three cells as p read them, and for ERROR the posted_at and tweet_id too
FromOwnLoad(p, line, w) ==
  LET r == Loaded(p, line)
  IN  /\ w[1] = r.scheduled_at /\ w[2] = r.text /\ w[3] = r.media_path
      /\ w[4] = ERROR => w[5] = r.posted_at /\ w[6] = r.tweet_id
      /\ w[4] = POSTED => w[6] \in TweetIds /\ w[7] = Empty

\* C19: with runs overlapping, every write a run issues is the full row built
\* from that run's own load, whatever the sheet holds by then, and a row the
\* sheet has accepted a write for holds exactly the cells of the last write
\* accepted.
C19_LastWriterWins ==
  /\ \A p \in Runs : \A n \in Idx(p) :
       log[p][n].op = "write" => FromOwnLoad(p, log[p][n].row, log[p][n].val)
  /\ \A j \in DOMAIN sheet :
       lastWrite[j].by # "none" => sheet[j] = lastWrite[j].val

\* two runs sent a publish request for the same row; the sheet accepted the
\* POSTED row of one, then the ERROR row of the other, and holds the row as
\* ERROR with an empty tweet_id
C19_Witness ==
  \E p, q \in Runs : \E line \in LinesOf(p) \cap LinesOf(q) :
    /\ p # q
    /\ Has(p, {"post"}, line) /\ Has(q, {"post"}, line)
    /\ \E n \in OkWrites(p, line) :
         log[p][n].val[4] = POSTED /\ log[p][n].val[6] \in TweetIds
    /\ lastWrite[line - 1].by = q
    /\ sheet[line - 1][4] = ERROR /\ sheet[line - 1][6] = Empty

====
